---- MODULE Spec2Model ----
(***************************************************************************)
(* The #[assert_instr] procedural macro of stdsimd-test                    *)
(* (src/stdsimd-test/assert-instr-macro/src/lib.rs).                        *)
(*                                                                         *)
(* One application of the macro is one behaviour: the initial state holds  *)
(* the macro's inputs (the attribute's token stream, the annotated item    *)
(* and the cfg(optimized) flag the macro crate was built with), and the    *)
(* single action AssertInstr runs the whole handler and leaves its parsed  *)
(* invocation and its result (the emitted items, or the panic).            *)
(*                                                                         *)
(* Identifiers are sequences of one-character strings, so that format!,    *)
(* == and starts_with are computed on characters.  Token streams are       *)
(* sequences of tokens; an expression is the token sequence it was parsed  *)
(* from.                                                                   *)
(***************************************************************************)
EXTENDS Integers, Sequences, FiniteSets, TLC

VARIABLES attr, item, optimized, pc, invoc, result

vars == <<attr, item, optimized, pc, invoc, result>>

(***************************************************************************)
(* Bounds of the enumerated inputs.                                        *)
(***************************************************************************)
MaxParams == 2
MaxOverrides == 2
MaxAttrs == 2
MaxToks == 4

(***************************************************************************)
(* Identifiers and string literals of the source, as character sequences.  *)
(***************************************************************************)
Str_target == <<"t","a","r","g","e","t">>
Str_assert_ == <<"a","s","s","e","r","t","_">>
Str_underscore == <<"_">>
Str_shim == <<"_","s","h","i","m">>

\* Sequences over S of length at most n.
SeqsUpTo(S, n) == UNION {[1..k -> S] : k \in 0..n}

(***************************************************************************)
(* Tokens of the attribute's argument list.                                *)
(***************************************************************************)
Comma == [k |-> "Comma", v |-> <<>>]
Eq == [k |-> "Eq", v |-> <<>>]
Ident(n) == [k |-> "Ident", v |-> n]
Lit(n) == [k |-> "Lit", v |-> n]

(***************************************************************************)
(* impl Synom for Invoc: parens!(instr (, name = expr)* ).                 *)
(* Positions are 1-based indexes into the group's token sequence; a        *)
(* sub-parser returns the position after what it consumed, or 0 when it    *)
(* fails.                                                                  *)
(***************************************************************************)
IsTok(toks, p, kind) == p >= 1 /\ p <= Len(toks) /\ toks[p].k = kind

IsAtom(toks, p) == IsTok(toks, p, "Ident") \/ IsTok(toks, p, "Lit")

\* syn!(syn::Expr) at p: an atom, then, right-associatively, "= expr"; when
\* the right-hand side does not parse the "=" is left unconsumed.
RECURSIVE ExprEnd(_, _)
ExprEnd(toks, p) ==
    IF ~IsAtom(toks, p) THEN 0
    ELSE IF IsTok(toks, p + 1, "Eq")
         THEN LET r == ExprEnd(toks, p + 2)
              IN IF r # 0 THEN r ELSE p + 1
         ELSE p + 1

NoOverride == [next |-> 0, name |-> <<>>, expr |-> <<>>]

\* The inner do_parse!: Comma, Ident, Eq, Expr, yielding (name, expr).
OverrideAt(toks, p) ==
    IF IsTok(toks, p, "Comma") /\ IsTok(toks, p + 1, "Ident")
       /\ IsTok(toks, p + 2, "Eq") /\ ExprEnd(toks, p + 3) # 0
    THEN [next |-> ExprEnd(toks, p + 3),
          name |-> toks[p + 1].v,
          expr |-> SubSeq(toks, p + 3, ExprEnd(toks, p + 3) - 1)]
    ELSE NoOverride

\* many0!: repeat the inner parser until it fails; keep what was collected
\* and stop at the position of the failure.
RECURSIVE Many0(_, _)
Many0(toks, p) ==
    LET o == OverrideAt(toks, p)
    IN IF o.next = 0
       THEN [args |-> <<>>, next |-> p]
       ELSE LET rest == Many0(toks, o.next)
            IN [args |-> <<[name |-> o.name, expr |-> o.expr]>> \o rest.args,
                next |-> rest.next]

\* GroupEof without the check: tokens left over in the group are accepted.
GroupEof_Unchecked(toks, p) == TRUE

\* The group's content must be consumed to its end.
GroupEof(toks, p) == p = Len(toks) + 1

NoInvoc == [ok |-> FALSE, instr |-> <<>>, args |-> <<>>]

\* parens!(do_parse!(instr >> args >> Invoc { instr, args }))
InvocParse(a) ==
    IF a.delim = "Paren" /\ IsTok(a.inner, 1, "Ident")
       /\ GroupEof(a.inner, Many0(a.inner, 2).next)
    THEN [ok |-> TRUE, instr |-> a.inner[1].v, args |-> Many0(a.inner, 2).args]
    ELSE NoInvoc

(***************************************************************************)
(* fn assert_instr(attr, item): the pieces of the handler.                 *)
(***************************************************************************)
\* starts_with taken for equality with the prefix.
starts_with_Whole(s, prefix) == s = prefix

\* str::starts_with
starts_with(s, prefix) ==
    Len(s) >= Len(prefix) /\ SubSeq(s, 1, Len(prefix)) = prefix

\* AssertName with the two names in the other order.
AssertName_Swapped(name, instr) == Str_assert_ \o instr \o Str_underscore \o name

\* format!("assert_{}_{}", name, instr)
AssertName(name, instr) == Str_assert_ \o name \o Str_underscore \o instr

\* format!("{}_shim", name)
ShimName(name) == name \o Str_shim

\* MaybeIgnore with the condition inverted.
MaybeIgnore_Inverted(opt) == IF opt THEN <<"ignore">> ELSE <<>>

\* if cfg!(optimized) { empty } else { #[ignore] }
MaybeIgnore(opt) == IF opt THEN <<>> ELSE <<"ignore">>

\* NoArgs off by one: a single override counts as none.
NoArgs_AtMostOne(inv) == Len(inv.args) <= 1

\* invoc.args.len() == 0
NoArgs(inv) == Len(inv.args) = 0

\* FindArg returning the last override of that name instead of the first.
FindArg_Last(args, ident) ==
    IF \E j \in 1..Len(args) : args[j].name = ident
    THEN CHOOSE j \in 1..Len(args) :
             /\ args[j].name = ident
             /\ \A h \in (j + 1)..Len(args) : args[h].name # ident
    ELSE 0

\* invoc.args.iter().find(|a| a.0 == ident): the index of the first override
\* of that name, 0 for None.
FindArg(args, ident) ==
    IF \E j \in 1..Len(args) : args[j].name = ident
    THEN CHOOSE j \in 1..Len(args) :
             /\ args[j].name = ident
             /\ \A h \in 1..(j - 1) : args[h].name # ident
    ELSE 0

\* The two matches at the head of the loop body: the panic of an argument
\* that is not a captured bare identifier, "" when it is one.
ArgPanic(arg) ==
    IF arg.arg # "Captured" THEN "arguments must not have patterns"
    ELSE IF arg.pat.k # "Ident" THEN "must have bare arguments"
    ELSE ""

\* OnSome that drops the overridden argument from the call.
OnSome_PushesNothing(acc, tts) == acc

\* Some(&(_, ref tts)) => input_vals.push(tts)
OnSome(acc, tts) == [acc EXCEPT !.input_vals = Append(@, tts)]

\* OnNone that passes the identifier on without declaring the parameter.
OnNone_ValueOnly(acc, capture) ==
    [acc EXCEPT !.input_vals = Append(@, <<Ident(capture.pat.ident)>>)]

\* None => inputs.push(capture); input_vals.push(ident)
OnNone(acc, capture) ==
    [acc EXCEPT !.inputs = Append(@, capture),
                !.input_vals = Append(@, <<Ident(capture.pat.ident)>>)]

\* for arg in func.decl.inputs.iter() { ... }, from argument i on.
RECURSIVE ShimLoop(_, _, _, _)
ShimLoop(fnargs, args, i, acc) ==
    IF i > Len(fnargs) THEN acc
    ELSE IF ArgPanic(fnargs[i]) # ""
    THEN [acc EXCEPT !.panic = ArgPanic(fnargs[i])]
    ELSE LET j == FindArg(args, fnargs[i].pat.ident)
         IN ShimLoop(fnargs, args, i + 1,
                     IF j # 0 THEN OnSome(acc, args[j].expr)
                     ELSE OnNone(acc, fnargs[i]))

\* func.attrs.iter().filter(first path segment starts with "target")
FeatureAttrs(attrs) ==
    SelectSeq(attrs, LAMBDA a : starts_with(a.path[1], Str_target))

\* #attrs unsafe fn #shim_name(#(#inputs),*) #ret { #name(#(#input_vals),*) }
ShimFn(func, loop) ==
    [kind |-> "Fn",
     attrs |-> FeatureAttrs(func.attrs),
     unsafety |-> TRUE,
     ident |-> ShimName(func.ident),
     inputs |-> loop.inputs,
     output |-> func.output,
     body |-> [callee |-> func.ident, args |-> loop.input_vals]]

\* ToTest that first requires every override to name a parameter.
ToTest_RejectsUnmatched(func, inv) ==
    IF NoArgs(inv)
    THEN [panic |-> "", to_test |-> <<>>, test_name |-> func.ident]
    ELSE IF \E j \in 1..Len(inv.args) :
               \A i \in 1..Len(func.inputs) :
                   func.inputs[i].pat.ident # inv.args[j].name
    THEN [panic |-> "override names no parameter", to_test |-> <<>>,
          test_name |-> func.ident]
    ELSE LET loop == ShimLoop(func.inputs, inv.args, 1,
                              [panic |-> "", inputs |-> <<>>, input_vals |-> <<>>])
         IN [panic |-> loop.panic,
             to_test |-> <<ShimFn(func, loop)>>,
             test_name |-> ShimName(func.ident)]

\* The if/else that yields (to_test, test_name): no shim and the function's
\* own name without overrides; else the shim and its name, or the panic of
\* the loop.
ToTest(func, inv) ==
    IF NoArgs(inv)
    THEN [panic |-> "", to_test |-> <<>>, test_name |-> func.ident]
    ELSE LET loop == ShimLoop(func.inputs, inv.args, 1,
                              [panic |-> "", inputs |-> <<>>, input_vals |-> <<>>])
         IN [panic |-> loop.panic,
             to_test |-> <<ShimFn(func, loop)>>,
             test_name |-> ShimName(func.ident)]

\* #[test] #[allow(non_snake_case)] #maybe_ignore fn #assert_name() {
\*     #to_test
\*     ::stdsimd_test::assert(#test_name as usize, stringify!(#test_name),
\*                            stringify!(#instr));
\* }
TestFn(func, inv, opt, t) ==
    [kind |-> "Fn",
     attrs |-> <<"test", "allow(non_snake_case)">> \o MaybeIgnore(opt),
     ident |-> AssertName(func.ident, inv.instr),
     to_test |-> t.to_test,
     call |-> [callee |-> "::stdsimd_test::assert",
               args |-> <<[e |-> "as usize", of |-> t.test_name],
                          [e |-> "stringify", of |-> t.test_name],
                          [e |-> "stringify", of |-> inv.instr]>>]]

\* quote! { #item #tts }
Output(it, tts) == <<it, tts>>

Panic(msg) == [status |-> "panic", msg |-> msg, out |-> <<>>]

Emitted(out) == [status |-> "ok", msg |-> "", out |-> out]

NoResult == [status |-> "none", msg |-> "", out |-> <<>>]

\* The handler from the parsed invocation on: the expects and panics in the
\* order the code reaches them, then the emitted stream.
Expand(inv, it, opt) ==
    IF ~inv.ok THEN Panic("expected #[assert_instr(instr, a = b, ...)]")
    ELSE IF it.kind = "NotAnItem" THEN Panic("must be attached to an item")
    ELSE IF it.kind # "Fn" THEN Panic("must be attached to a function")
    ELSE LET t == ToTest(it, inv)
         IN IF t.panic # "" THEN Panic(t.panic)
            ELSE Emitted(Output(it, TestFn(it, inv, opt, t)))

(***************************************************************************)
(* The inputs of one application.                                          *)
(***************************************************************************)
Name_a == <<"a">>
Name_b == <<"b">>
Name_add == <<"a","d","d">>
Name_f_g == <<"f","_","g">>
Name_addl == <<"a","d","d","l">>
Name_nop == <<"n","o","p">>
Name_target_feature ==
    <<"t","a","r","g","e","t","_","f","e","a","t","u","r","e">>
Name_inline == <<"i","n","l","i","n","e">>
Name_my_target == <<"m","y","_","t","a","r","g","e","t">>

FnNames == {Name_add, Name_f_g}
InstrNames == {Name_addl, Name_nop}
ReturnTypes == {"", "-> i32"}

\* A function argument: FnArg::Captured with its pattern and type, or
\* FnArg::Ignored (a type without a pattern).
Captured(pat, ty) == [arg |-> "Captured", pat |-> pat, ty |-> ty]
PatIdent(n) == [k |-> "Ident", ident |-> n]
PatTuple == [k |-> "Tuple", ident |-> <<>>]
ParamChoices ==
    {Captured(PatIdent(Name_a), "i32"), Captured(PatIdent(Name_b), "f32"),
     Captured(PatTuple, "(i32, i32)"),
     [arg |-> "Ignored", pat |-> [k |-> "None", ident |-> <<>>], ty |-> "i32"]}

\* An attribute of the item: its path's segments and its arguments.
Attribute(path, tts) == [path |-> path, tts |-> tts]
AttrChoices ==
    {Attribute(<<Name_target_feature>>, "(enable = sse2)"),
     Attribute(<<Str_target>>, ""),
     Attribute(<<Name_inline>>, ""),
     Attribute(<<Name_my_target, Str_target>>, "")}

Exprs == {<<Lit(<<"1">>)>>, <<Lit(<<"2">>)>>}
OverrideChoices == [name : {Name_a, Name_b}, expr : Exprs]

ItemFn(attrs, ident, inputs, output) ==
    [kind |-> "Fn", attrs |-> attrs, ident |-> ident, inputs |-> inputs,
     output |-> output]
OtherItem(kind, ident) ==
    [kind |-> kind, attrs |-> <<>>, ident |-> ident, inputs |-> <<>>,
     output |-> ""]

\* The token stream #[assert_instr(instr, a = e1, b = e2, ...)] hands over.
RECURSIVE RenderArgs(_)
RenderArgs(args) ==
    IF args = <<>> THEN <<>>
    ELSE <<Comma, Ident(Head(args).name), Eq>> \o Head(args).expr
         \o RenderArgs(Tail(args))
Render(instr, args) ==
    [delim |-> "Paren", inner |-> <<Ident(instr)>> \o RenderArgs(args)]

\* Functions of every parameter list, under every override list.
ShimCases ==
    {[attr |-> Render(Name_addl, args),
      item |-> ItemFn(<<Attribute(<<Name_inline>>, "")>>, Name_add, ins, "-> i32"),
      optimized |-> TRUE] :
        args \in SeqsUpTo(OverrideChoices, MaxOverrides),
        ins \in SeqsUpTo(ParamChoices, MaxParams)}

\* Items that are no function.
ItemCases ==
    {[attr |-> Render(Name_addl, args), item |-> OtherItem(kind, Name_add),
      optimized |-> opt] :
        args \in SeqsUpTo(OverrideChoices, 1),
        kind \in {"Struct", "NotAnItem"}, opt \in BOOLEAN}

\* Functions of every name, attribute list and return type, in both builds.
SignatureCases ==
    {[attr |-> Render(c[1], args),
      item |-> ItemFn(attrs, c[2],
                      <<Captured(PatIdent(Name_a), "i32"),
                        Captured(PatIdent(Name_b), "f32")>>, c[3]),
      optimized |-> c[4]] :
        c \in InstrNames \X FnNames \X ReturnTypes \X BOOLEAN,
        args \in {<<>>, <<[name |-> Name_a, expr |-> <<Lit(<<"1">>)>>]>>},
        attrs \in SeqsUpTo(AttrChoices, MaxAttrs)}

\* Every short token sequence, and every well-formed argument list with one
\* token removed or replaced, in parentheses or in brackets.
Alphabet ==
    {Comma, Eq, Ident(Name_a), Ident(Name_b), Ident(Name_addl),
     Lit(<<"1">>), Lit(<<"2">>)}
DeleteAt(s, i) == SubSeq(s, 1, i - 1) \o SubSeq(s, i + 1, Len(s))
ReplaceAt(s, i, t) == [s EXCEPT ![i] = t]
\* The overrides of the well-formed argument lists: a literal, or an
\* assignment expression, whose "=" is part of the expression.
GrammarChoices ==
    [name : {Name_a, Name_b},
     expr : {<<Lit(<<"1">>)>>, <<Ident(Name_b), Eq, Lit(<<"2">>)>>}]
GrammarArgs == SeqsUpTo(GrammarChoices, MaxOverrides)
Rendered == {Render(Name_addl, args).inner : args \in GrammarArgs}
Mutations(r) ==
    {DeleteAt(r, i) : i \in 1..Len(r)}
    \cup {ReplaceAt(r, i, t) : i \in 1..Len(r), t \in Alphabet}
TokenSeqs ==
    SeqsUpTo(Alphabet, MaxToks) \cup Rendered
    \cup UNION {Mutations(r) : r \in Rendered}
ParseCases ==
    {[attr |-> [delim |-> d, inner |-> toks],
      item |-> ItemFn(<<>>, Name_add, <<Captured(PatIdent(Name_a), "i32")>>, ""),
      optimized |-> TRUE] :
        d \in {"Paren", "Bracket"}, toks \in TokenSeqs}

Cases == ShimCases \cup ItemCases \cup SignatureCases \cup ParseCases

(***************************************************************************)
(* The state machine.                                                      *)
(***************************************************************************)
Init ==
    /\ \E c \in Cases :
          /\ attr = c.attr
          /\ item = c.item
          /\ optimized = c.optimized
    /\ pc = "start"
    /\ invoc = NoInvoc
    /\ result = NoResult

\* pub fn assert_instr(attr, item) -> TokenStream
AssertInstr ==
    /\ pc = "start"
    /\ invoc' = InvocParse(attr)
    /\ result' = Expand(InvocParse(attr), item, optimized)
    /\ pc' = "done"
    /\ UNCHANGED <<attr, item, optimized>>

Next == AssertInstr

Spec == Init /\ [][Next]_vars

(***************************************************************************)
(* Vocabulary of the properties.                                           *)
(***************************************************************************)
Done == pc = "done"
Succeeded == Done /\ result.status = "ok"
Aborted == Done /\ result.status = "panic" /\ result.out = <<>>
Test == result.out[2]
WithShim == Succeeded /\ Len(result.out) = 2 /\ Len(Test.to_test) = 1
Shim == Test.to_test[1]
Params == item.inputs
ParamName(i) == Params[i].pat.ident
Overrides == invoc.args
OverrideNames == {Overrides[j].name : j \in 1..Len(Overrides)}
IsBare(p) == p.arg = "Captured" /\ p.pat.k = "Ident"
AllBare == \A i \in 1..Len(Params) : IsBare(Params[i])
Overridden(i) == ParamName(i) \in OverrideNames
Forwarded == SelectSeq(Params, LAMBDA p : p.pat.ident \notin OverrideNames)

C2_FatalOnInvalid ==
    (Done /\ (item.kind # "Fn" \/ ~AllBare)) => Aborted

\* C3: the shim's body is one call of the original function with one
\* argument per original parameter, in order: an override's expression where
\* the parameter's name is an override name, the parameter's identifier
\* elsewhere.
C3_ShimCall ==
    WithShim =>
        /\ Shim.body.callee = item.ident
        /\ Len(Shim.body.args) = Len(Params)
        /\ \A i \in 1..Len(Params) :
              IF Overridden(i)
              THEN \E j \in 1..Len(Overrides) :
                      /\ Overrides[j].name = ParamName(i)
                      /\ Shim.body.args[i] = Overrides[j].expr
              ELSE Shim.body.args[i] = <<Ident(ParamName(i))>>

C3_Witness ==
    /\ WithShim
    /\ Len(Params) = 2
    /\ ~Overridden(1) /\ Overridden(2)
    /\ Shim.body.args = <<<<Ident(Name_a)>>, <<Lit(<<"1">>)>>>>

\* C4: a shim is emitted exactly when the override list is not empty; the
\* test hands the runtime helper the original function (address and name)
\* without overrides and the shim with them.
C4_ShimIffOverrides ==
    Succeeded =>
        /\ Len(result.out) = 2
        /\ (Test.to_test # <<>>) <=> (Overrides # <<>>)
        /\ Test.call.args[1].e = "as usize"
        /\ Test.call.args[2].e = "stringify"
        /\ Test.call.args[1].of = Test.call.args[2].of
        /\ IF Overrides = <<>>
           THEN Test.call.args[1].of = item.ident
           ELSE /\ Len(Test.to_test) = 1
                /\ Test.call.args[1].of = Shim.ident
                /\ Shim.ident # item.ident

C4_Witness ==
    /\ Succeeded
    /\ invoc.ok /\ Overrides = <<>>
    /\ Len(Params) > 0
    /\ Test.to_test = <<>>
    /\ Test.call.args[1].of = item.ident

\* C5: the shim's attributes are exactly the original's attributes whose
\* first path segment's name starts with "target", in their original order,
\* and its return type is the original's.
HasTargetPrefix(n) ==
    /\ Len(n) >= 6
    /\ <<n[1], n[2], n[3], n[4], n[5], n[6]>> = <<"t","a","r","g","e","t">>

C5_ShimAttributes ==
    WithShim =>
        /\ Shim.attrs = SelectSeq(item.attrs, LAMBDA a : HasTargetPrefix(a.path[1]))
        /\ Shim.output = item.output

C5_Witness ==
    /\ WithShim
    /\ Len(item.attrs) = 2
    /\ item.attrs[1].path = <<Name_inline>>
    /\ item.attrs[2].path = <<Name_target_feature>>
    /\ Shim.attrs = <<item.attrs[2]>>
    /\ Shim.output = "-> i32"

\* C6: a successful expansion emits the original item unchanged, then exactly
\* one test function, the shim (if any) nested in the test; the test is
\* emitted in both builds and carries #[ignore] exactly when instruction
\* verification is off.
C6_Additive ==
    Succeeded =>
        /\ Len(result.out) = 2
        /\ result.out[1] = item
        /\ Test.kind = "Fn"
        /\ Test.attrs[1] = "test"
        /\ Len(Test.to_test) <= 1
        /\ (\E k \in 1..Len(Test.attrs) : Test.attrs[k] = "ignore") <=> ~optimized

C6_Witness ==
    /\ WithShim
    /\ ~optimized
    /\ result.out[1] = item
    /\ Test.attrs = <<"test", "allow(non_snake_case)", "ignore">>

\* C7: the test is named assert_<fn>_<instr> and the shim <fn>_shim, for the
\* function's name and the instruction name written in the attribute.
C7_Names ==
    Succeeded =>
        LET f == item.ident
            i == attr.inner[1].v
            n == Test.ident
        IN /\ Len(n) = 7 + Len(f) + 1 + Len(i)
           /\ SubSeq(n, 1, 7) = <<"a","s","s","e","r","t","_">>
           /\ SubSeq(n, 8, 7 + Len(f)) = f
           /\ n[8 + Len(f)] = "_"
           /\ SubSeq(n, 9 + Len(f), Len(n)) = i
           /\ Test.to_test # <<>> =>
                 /\ Len(Shim.ident) = Len(f) + 5
                 /\ SubSeq(Shim.ident, 1, Len(f)) = f
                 /\ SubSeq(Shim.ident, Len(f) + 1, Len(f) + 5) = <<"_","s","h","i","m">>

C7_Witness ==
    /\ WithShim
    /\ item.ident = Name_f_g
    /\ Test.ident = <<"a","s","s","e","r","t","_","f","_","g","_","n","o","p">>
    /\ Shim.ident = <<"f","_","g","_","s","h","i","m">>

\* C8: a token sequence (instr, a = e1, b = e2, ...) parses to
\* instruction_name = instr and overrides = [(a,e1), (b,e2), ...], as many
\* and in the order written, duplicates kept; a sequence that is not of this
\* form is a parse failure, which aborts the expansion.
IsExpression(e) ==
    /\ Len(e) % 2 = 1
    /\ \A k \in 1..Len(e) :
          IF k % 2 = 1 THEN e[k].k \in {"Ident", "Lit"} ELSE e[k] = Eq

C8_GrammarRoundTrip ==
    Done =>
        /\ \A args \in GrammarArgs, i \in {Name_addl, Name_a} :
              attr = Render(i, args) =>
                  invoc = [ok |-> TRUE, instr |-> i, args |-> args]
        /\ invoc.ok =>
              /\ attr = Render(invoc.instr, invoc.args)
              /\ \A j \in 1..Len(invoc.args) : IsExpression(invoc.args[j].expr)
        /\ ~invoc.ok =>
              /\ Aborted
              /\ result.msg = "expected #[assert_instr(instr, a = b, ...)]"

C8_Witness ==
    /\ Done
    /\ attr.inner = <<Ident(Name_addl), Comma, Ident(Name_a), Eq, Lit(<<"1">>),
                      Comma, Ident(Name_a), Eq, Ident(Name_b), Eq, Lit(<<"2">>)>>
    /\ invoc.ok
    /\ invoc.instr = Name_addl
    /\ Len(invoc.args) = 2
    /\ invoc.args[1] = [name |-> Name_a, expr |-> <<Lit(<<"1">>)>>]
    /\ invoc.args[2].name = Name_a

\* C9: an override that names no parameter aborts nothing and supplies no
\* call argument: a function of bare-identifier parameters expands under
\* every override list, each call argument is the parameter's identifier or
\* the expression of an override of that parameter's name, and when no
\* override names a parameter the shim is still emitted, forwards every
\* parameter unchanged and is the test's target.
C9_UnmatchedOverride ==
    (Done /\ invoc.ok /\ item.kind = "Fn" /\ AllBare) =>
        /\ Succeeded
        /\ Test.to_test # <<>> =>
              \A i \in 1..Len(Shim.body.args) :
                  \/ Shim.body.args[i] = <<Ident(ParamName(i))>>
                  \/ \E j \in 1..Len(Overrides) :
                        /\ Overrides[j].name = ParamName(i)
                        /\ Overrides[j].expr = Shim.body.args[i]
        /\ (Overrides # <<>> /\ \A i \in 1..Len(Params) : ~Overridden(i)) =>
              /\ WithShim
              /\ Shim.inputs = Params
              /\ Shim.body.args = [i \in 1..Len(Params) |-> <<Ident(ParamName(i))>>]
              /\ Test.call.args[1].of = Shim.ident

C9_Witness ==
    /\ WithShim
    /\ Len(Params) = 1 /\ ParamName(1) = Name_a
    /\ Len(Overrides) = 2
    /\ OverrideNames = {Name_b}
    /\ Shim.inputs = Params
    /\ Shim.body.args = <<<<Ident(Name_a)>>>>

\* C10: of several overrides of one parameter name the first, in written
\* order, supplies the call argument; the later ones change nothing, and the
\* parameter leaves the shim's parameter list once.
C10_FirstDuplicateWins ==
    WithShim =>
        /\ \A i \in 1..Len(Params), j \in 1..Len(Overrides) :
              (/\ Overrides[j].name = ParamName(i)
               /\ \A h \in 1..(j - 1) : Overrides[h].name # ParamName(i))
                  => Shim.body.args[i] = Overrides[j].expr
        /\ Len(Shim.inputs)
              = Len(Params) - Cardinality({i \in 1..Len(Params) : Overridden(i)})
        /\ \A k \in 1..Len(Shim.inputs) :
              Shim.inputs[k].pat.ident \notin OverrideNames

C10_Witness ==
    /\ WithShim
    /\ Len(Params) = 2
    /\ Overrides = <<[name |-> Name_b, expr |-> <<Lit(<<"2">>)>>],
                     [name |-> Name_b, expr |-> <<Lit(<<"1">>)>>]>>
    /\ ParamName(2) = Name_b
    /\ Shim.body.args[2] = <<Lit(<<"2">>)>>
    /\ Len(Shim.inputs) = 1

====
